---- MODULE Spec2Model ----
(***************************************************************************)
(* Remote-execution responder of the agent (agent/src/rpc/remote_exec.rs). *)
(*                                                                         *)
(* The model follows Responser::poll_next gate by gate: one action per     *)
(* outcome of one pass through its loop.  Futures registered by the        *)
(* responder complete through environment actions; the supervisor side of  *)
(* the intake channel forwards requests and may drop the sender.           *)
(*                                                                         *)
(* Option<T> values are sequences of length at most one: None is << >>,    *)
(* Some(v) is <<v>>.  Byte strings are sequences of integers in 0..255.    *)
(***************************************************************************)
EXTENDS Integers, Sequences, FiniteSets, TLC

None == << >>
Some(v) == <<v>>

(***************************************************************************)
(* Bounds of the model.                                                    *)
(***************************************************************************)
\* requests the supervisor forwards in one session
MaxRequests == 2
\* entries in a parameter list handed to the validator on its own
MaxParamList == 2

(***************************************************************************)
(* Program constants.                                                      *)
(***************************************************************************)
MIN_BATCH_LEN == 1024

\* pb::RemoteExecRequest::default().batch_len(): the default of the
\* generated message, which the invariant batch_len >= MIN_BATCH_LEN fixes
DefaultBatchLen == 1024

\* process::id() of the agent, and the pid of some other process
OwnPid == 100
ForeignPid == OwnPid + 100

(***************************************************************************)
(* Command catalog.  A token of a command line records whether it starts   *)
(* with '$' and its text (without the sigil for a placeholder).            *)
(***************************************************************************)
T(text) == [dollar |-> FALSE, text |-> text]
D(name) == [dollar |-> TRUE, text |-> name]

Linux == [ty |-> "Linux", kcmd |-> ""]
Kubernetes(kcmd) == [ty |-> "Kubernetes", kcmd |-> kcmd]

all_supported_commands ==
    << [cmdline |-> "lsns",
        output_format |-> "Text", desc |-> "", command_type |-> Linux],
       [cmdline |-> "top -b -n 1 -c -w 512",
        output_format |-> "Text", desc |-> "top", command_type |-> Linux],
       [cmdline |-> "ps auxf",
        output_format |-> "Text", desc |-> "ps", command_type |-> Linux],
       [cmdline |-> "ip address",
        output_format |-> "Text", desc |-> "", command_type |-> Linux],
       [cmdline |-> "kubectl -n $ns describe pod $pod",
        output_format |-> "Text", desc |-> "",
        command_type |-> Kubernetes("DescribePod")],
       [cmdline |-> "kubectl -n $ns logs --tail=10000 $pod",
        output_format |-> "Text", desc |-> "",
        command_type |-> Kubernetes("Log")],
       [cmdline |-> "kubectl -n $ns logs --tail=10000 -p $pod",
        output_format |-> "Text", desc |-> "",
        command_type |-> Kubernetes("LogPrevious")] >>

\* str::split_whitespace, tabulated for the command lines of the catalog
split_whitespace(cmdline) ==
    CASE cmdline = "lsns" -> <<T("lsns")>>
      [] cmdline = "top -b -n 1 -c -w 512" ->
            <<T("top"), T("-b"), T("-n"), T("1"), T("-c"), T("-w"), T("512")>>
      [] cmdline = "ps auxf" -> <<T("ps"), T("auxf")>>
      [] cmdline = "ip address" -> <<T("ip"), T("address")>>
      [] cmdline = "kubectl -n $ns describe pod $pod" ->
            <<T("kubectl"), T("-n"), D("ns"), T("describe"), T("pod"), D("pod")>>
      [] cmdline = "kubectl -n $ns logs --tail=10000 $pod" ->
            <<T("kubectl"), T("-n"), D("ns"), T("logs"), T("--tail=10000"), D("pod")>>
      [] cmdline = "kubectl -n $ns logs --tail=10000 -p $pod" ->
            <<T("kubectl"), T("-n"), D("ns"), T("logs"), T("--tail=10000"), T("-p"),
              D("pod")>>

\* ids are 0-based indices into the catalog
get_cmd(id) ==
    IF id >= 0 /\ id < Len(all_supported_commands)
    THEN Some(all_supported_commands[id + 1])
    ELSE None

DollarArgs(cmdline) ==
    LET args == split_whitespace(cmdline)
    IN  Cardinality({i \in DOMAIN args : args[i].dollar})

max_param_nums ==
    LET counts == {DollarArgs(all_supported_commands[i].cmdline) :
                       i \in DOMAIN all_supported_commands}
    IN  IF counts = {} THEN 0
        ELSE CHOOSE m \in counts : \A n \in counts : n <= m

(***************************************************************************)
(* Parameters.  A pb::Parameter is [key : Option<String>,                  *)
(* value : Option<bytes>].                                                 *)
(***************************************************************************)
Param(k, v) == [key |-> k, value |-> v]

ValidByte(c) ==
    \/ c \in 65..90      \* A-Z
    \/ c \in 97..122     \* a-z
    \/ c \in 48..57      \* 0-9
    \/ c = 45            \* -
    \/ c = 95            \* _

is_valid(params) ==
    \A i \in DOMAIN params :
        /\ params[i].key # None
        /\ params[i].value # None
        /\ \A j \in DOMAIN params[i].value[1] : ValidByte(params[i].value[1][j])

Min(a, b) == IF a < b THEN a ELSE b
Max(a, b) == IF a < b THEN b ELSE a

\* truncation to one entry too few
TruncateParams_short(params) ==
    SubSeq(params, 1, Min(Len(params), max_param_nums - 1))

\* &msg.params[..msg.params.len().min(max_param_nums())]
TruncateParams(params) ==
    SubSeq(params, 1, Min(Len(params), max_param_nums))

\* the value of the last parameter whose key is `name`, as the loop of
\* kubectl_execute leaves it
LastValueOf(params, name) ==
    LET hits == {i \in DOMAIN params : params[i].key = Some(name)}
    IN  IF hits = {} THEN None
        ELSE params[CHOOSE i \in hits : \A j \in hits : j <= i].value

\* a call that asks for no parameter
kubectl_execute_lenient(kcmd, params) == [ok |-> TRUE, missing |-> ""]

\* Ok(future) or Err(ParamNotFound(missing))
kubectl_execute(kcmd, params) ==
    LET ns  == LastValueOf(params, "ns")
        pod == LastValueOf(params, "pod")
    IN  IF ns = None THEN [ok |-> FALSE, missing |-> "ns"]
        ELSE IF pod = None THEN [ok |-> FALSE, missing |-> "pod"]
        ELSE [ok |-> TRUE, missing |-> ""]

\* argv substitution of the subprocess path: the first placeholder, in
\* command-line order, that no parameter key matches (None when all match)
FirstMissingArg(cmdline, params) ==
    LET args == split_whitespace(cmdline)
        missing == {i \in 2..Len(args) :
                        /\ args[i].dollar
                        /\ \A p \in DOMAIN params :
                               params[p].key # Some(args[i].text)}
    IN  IF missing = {} THEN None
        ELSE Some(args[CHOOSE i \in missing : \A j \in missing : i <= j].text)

(***************************************************************************)
(* Running digest.  Md5 is taken as collision-free: a digest stands for    *)
(* the bytes fed to it since its last reset, in the order they were fed,   *)
(* so that two digests are equal exactly when those byte strings are.      *)
(***************************************************************************)
\* Md5::default(), and the state after reset()
Md5New == << >>

\* digest.update(bytes)
Md5Update(d, bytes) == d \o bytes

\* format!("{:x}", digest.finalize()): the hex string of the digest
Md5Hex(d) == [md5_of |-> d]

\* the md5 of a whole byte string, hashed in one go
Md5Of(bytes) == Md5Hex(Md5Update(Md5New, bytes))

(***************************************************************************)
(* Messages.                                                               *)
(***************************************************************************)
ListCommand == 0
ListNamespace == 1
RunCommand == 2

\* pb::ExecutionType::from_i32
from_i32(v) == IF v \in {ListCommand, ListNamespace, RunCommand} THEN Some(v) ELSE None

\* pb::RemoteExecRequest as it comes off the wire: exec_type is an
\* optional i32
WireRequest(exec_type, request_id, command_id, params, linux_ns_pid, blen) ==
    [exec_type |-> exec_type, request_id |-> request_id,
     command_id |-> command_id, params |-> params,
     linux_ns_pid |-> linux_ns_pid, batch_len |-> blen]

\* pb::RemoteExecRequest with an exec_type of the enumeration
Request(exec_type, request_id, command_id, params, linux_ns_pid, blen) ==
    WireRequest(Some(exec_type), request_id, command_id, params, linux_ns_pid, blen)

\* pb::ExecutionType::from_i32(msg.exec_type.unwrap()).unwrap()
ExecTypeOf(msg) == from_i32(msg.exec_type[1])[1]

\* pb::CommandResult
CommandResultPb(errno, total_len, pkt_count, content, md5) ==
    [errno |-> errno, total_len |-> total_len, pkt_count |-> pkt_count,
     content |-> content, md5 |-> md5]

\* pb::CommandResult::default()
DefaultCommandResultPb == CommandResultPb(None, None, None, None, None)

AgentId == "agent"

\* pb::RemoteExecResponse
Response(request_id, errmsg, command_result, linux_namespaces, commands) ==
    [agent_id |-> Some(AgentId), request_id |-> request_id, errmsg |-> errmsg,
     command_result |-> command_result,
     linux_namespaces |-> linux_namespaces, commands |-> commands]

\* the same list with ids counted from 1
CommandList_one_based ==
    [i \in DOMAIN all_supported_commands |->
        LET c == all_supported_commands[i]
        IN  [id |-> Some(i), cmd |-> Some(c.cmdline), param_names |-> << >>,
             output_format |-> Some(c.output_format),
             cmd_type |-> Some(c.command_type.ty)]]

\* the reply to ListCommand, built from the catalog
CommandList ==
    [i \in DOMAIN all_supported_commands |->
        LET c == all_supported_commands[i]
            args == split_whitespace(c.cmdline)
            dollars == {j \in DOMAIN args : args[j].dollar}
            \* the placeholders in command-line order
            nth(k) == CHOOSE j \in dollars :
                          Cardinality({l \in dollars : l < j}) = k - 1
        IN  [id |-> Some(i - 1),
             cmd |-> IF c.desc = "" THEN Some(c.cmdline) ELSE Some(c.desc),
             param_names |-> [k \in 1..Cardinality(dollars) |-> args[nth(k)].text],
             output_format |-> Some(c.output_format),
             cmd_type |-> Some(c.command_type.ty)]]

(***************************************************************************)
(* The inputs of the model: the requests the server sends, and what the    *)
(* commands print.                                                         *)
(***************************************************************************)
Bytes(str) ==
    CASE str = "prod"   -> <<112, 114, 111, 100>>
      [] str = "web-1"  -> <<119, 101, 98, 45, 49>>
      [] str = "my pod" -> <<109, 121, 32, 112, 111, 100>>
      [] str = "a;b"    -> <<97, 59, 98>>

P(k, v) == Param(Some(k), Some(Bytes(v)))

ParamLists ==
    { <<P("ns", "prod"), P("pod", "web-1")>>,
      <<P("ns", "prod")>>,
      <<P("pod", "web-1")>>,
      <<P("ns", "prod"), P("pod", "my pod")>>,
      <<P("ns", "a;b"), P("pod", "web-1")>>,
      <<P("ns", "prod"), P("pod", "web-1"), P("x", "a;b")>> }

\* the RunCommand requests, without their request id
RunRequests ==
    \* command_id absent or outside the catalog
    { Request(RunCommand, None, c, << >>, None, None) :
          c \in {None, Some(Len(all_supported_commands))} }
    \cup
    \* command_id absent, with a chunk size
    { Request(RunCommand, None, None, << >>, None, Some(1200)) }
    \cup
    \* a local command, with and without a chunk size
    { Request(RunCommand, None, Some(1), << >>, None, bl) :
          bl \in {None, Some(0), Some(1200)} }
    \cup
    \* a local command and lsns, in the agent's namespace and in another
    { Request(RunCommand, None, Some(c), << >>, Some(pid), None) :
          c \in {0, 2}, pid \in {OwnPid, ForeignPid} }
    \cup
    \* a Kubernetes command over the parameter lists
    { Request(RunCommand, None, Some(4), ps, None, None) : ps \in ParamLists }
    \cup
    \* the other Kubernetes commands, in another namespace
    { Request(RunCommand, None, Some(c), <<P("ns", "prod"), P("pod", "web-1")>>,
              Some(ForeignPid), None) : c \in {5, 6} }
    \cup
    \* a Kubernetes command without its pod, in another namespace
    { Request(RunCommand, None, Some(4), <<P("ns", "prod")>>, Some(ForeignPid), None) }
    \cup
    \* a local command without placeholders, with parameters all the same
    { Request(RunCommand, None, Some(3), ps, None, None) :
          ps \in { <<P("ns", "prod"), P("pod", "my pod")>>,
                   <<P("ns", "prod"), P("pod", "web-1"), P("x", "a;b")>> } }

ListRequests ==
    { Request(t, None, None, << >>, None, None) : t \in {ListCommand, ListNamespace} }

\* the k-th request of a session carries the id 10 + k; a ListNamespace
\* and a plain local command may also come without an id
Requests(k) ==
    { [m EXCEPT !.request_id = Some(10 + k)] : m \in RunRequests \cup ListRequests }
    \cup
    { Request(ListNamespace, None, None, << >>, None, None),
      Request(RunCommand, None, Some(1), << >>, None, None) }

\* the byte string a command of output length len prints
Stdout(len) == [i \in 1..len |-> (i * 37 + (i \div 256) * 101) % 256]

StdoutLens == {0, MIN_BATCH_LEN, MIN_BATCH_LEN + 1, 2 * MIN_BATCH_LEN, 2500}

\* std::process::Output behind io::Result: the exit code (None when killed
\* by a signal) and stdout, or an error
OkOutput(code, stdout) == [tag |-> "ok", code |-> code, stdout |-> stdout]
ErrOutput == [tag |-> "err", code |-> None, stdout |-> << >>]
NoOutput == [tag |-> "none", code |-> None, stdout |-> << >>]

\* what each kind of command future can resolve to
SpawnOutcomes ==
    { OkOutput(Some(0), Stdout(l)) : l \in StdoutLens }
    \cup { OkOutput(Some(3), Stdout(1)), OkOutput(None, << >>), ErrOutput }

LsnsCommandOutcomes == { OkOutput(Some(0), Stdout(MIN_BATCH_LEN + 1)), ErrOutput }

KubeOutcomes == { OkOutput(Some(0), Stdout(1)), ErrOutput }

Outcomes(kind) ==
    CASE kind = "spawn" -> SpawnOutcomes
      [] kind = "lsns"  -> LsnsCommandOutcomes
      [] kind = "kube"  -> KubeOutcomes

\* pb::LinuxNamespace
NetNamespace(id, pid) ==
    [id |-> Some(id), pid |-> Some(pid), user |-> Some("root"),
     cmd |-> Some("init"), ns_type |-> Some("net")]

\* what ls_netns() can resolve to
LsnsOutcomes ==
    { [tag |-> "ok", namespaces |-> <<NetNamespace(4026, 1)>>],
      [tag |-> "err", namespaces |-> << >>] }

(***************************************************************************)
(* State.                                                                  *)
(***************************************************************************)
VARIABLES
    \* Responser
    batch_len,        \* usize
    pending_lsns,     \* Option<(request_id, future)>
    pending_command,  \* Option<(request_id, command id, future)>
    result,           \* CommandResult
    terminated,       \* poll_next has returned Ready(None)
    \* the intake channel, mpsc::channel(1)
    chan,             \* the requests sent and not yet received
    sender_alive,     \* the supervisor still holds the sender
    nsent,            \* requests the supervisor has forwarded
    \* history
    reqs,             \* the requests taken from the channel, in order
    owner,            \* which request each slot of the responder serves
    last,             \* the response the latest step emitted, if it emitted one,
                      \* with the request it answers
    stream,           \* the output being streamed: request, stdout, batch_len
    chunks,           \* the chunks emitted for it so far
    fx,               \* what the latest step did to the host
    \* the parameter validator on its own
    validated,        \* the list is_valid was last applied to, and its verdict
    \* Executor and Interior
    running,          \* Arc<AtomicBool>
    sup,              \* Interior::run: where it is, and its locals
    session,          \* Session: the version counter, request_failed
    exc,              \* ExceptionHandler: ControllerSocketError raised, counted
    inbound,          \* the response stream of the call: what message() returns next
    callers,          \* the threads calling Executor::start and stop
    tasks,            \* the supervisor tasks Executor::start has spawned
    \* lsns
    iter,             \* the processes read_dir has still to yield, in its order
    inode_of,         \* the inode of each process's net namespace file
    ns_by_id          \* HashMap<u64, Namespace>

\* the state of the supervisor, and of the executor around it
supervisor == <<running, sup, session, exc, inbound>>
executor == <<callers, tasks>>
\* the state of one call of lsns
lister == <<iter, inode_of, ns_by_id>>

vars == <<batch_len, pending_lsns, pending_command, result, terminated,
          chan, sender_alive, nsent,
          reqs, owner, last, stream, chunks, fx, validated,
          running, sup, session, exc, inbound, callers, tasks,
          iter, inode_of, ns_by_id>>

\* CommandResult::default()
DefaultCommandResult ==
    [request_id |-> None, errno |-> 0, output |-> << >>, total_len |-> 0,
     digest |-> Md5New]

\* what a step did to the host: opened the namespace file, called
\* set_netns (entered), called reset_netns (left), spawned a process,
\* registered a command future; in_foreign: the thread is in the foreign
\* namespace when the step returns
NoFx == [opened |-> FALSE, entered |-> FALSE, left |-> FALSE,
         spawned |-> FALSE, spawned_in_foreign |-> FALSE,
         in_foreign |-> FALSE, registered |-> FALSE]

NoStream == [req |-> 0, stdout |-> << >>, batch_len |-> 0]

\* Responser::new, on a fresh channel
InitSession ==
    /\ batch_len = DefaultBatchLen
    /\ pending_lsns = None
    /\ pending_command = None
    /\ result = DefaultCommandResult
    /\ terminated = FALSE
    /\ chan = << >>
    /\ sender_alive = TRUE
    /\ nsent = 0
    /\ reqs = << >>
    /\ owner = [cmd |-> 0, lsns |-> 0, result |-> 0]
    /\ last = None
    /\ stream = NoStream
    /\ chunks = << >>
    /\ fx = NoFx

\* no executor: the responder is looked at on its own, the supervisor
\* being the two steps Forward and DropSender
NoExecutor ==
    /\ running = TRUE
    /\ sup = [pc |-> "none"]
    /\ session = [version |-> 0, request_failed |-> FALSE]
    /\ exc = 0
    /\ inbound = << >>
    /\ callers = << >>
    /\ tasks = << >>

\* lsns is not running
NoLister ==
    /\ iter = << >>
    /\ inode_of = << >>
    /\ ns_by_id = << >>

Init == InitSession /\ validated = None /\ NoExecutor /\ NoLister

(***************************************************************************)
(* Responser::generate_result_batch                                        *)
(***************************************************************************)
\* pkt_count without the saturating_sub(1)
PktCount_no_sub(total_len, blen) == total_len \div blen + 1

\* (r.total_len.saturating_sub(1) / batch_len + 1) as u32
PktCount(total_len, blen) == Max(total_len - 1, 0) \div blen + 1

\* `<` where the code has `<=`
IsLast_strict(len, blen) == len < blen

\* let last = r.output.len() <= batch_len
IsLast(len, blen) == len <= blen

\* a drain that takes n bytes out of the buffer and hands on n - 1
DrainFront_short(output, n) ==
    [content |-> SubSeq(output, 1, n - 1), rest |-> SubSeq(output, n + 1, Len(output))]

\* r.output.drain(..n).collect(): the first n bytes, and what stays
DrainFront(output, n) ==
    [content |-> SubSeq(output, 1, n), rest |-> SubSeq(output, n + 1, Len(output))]

\* Some(batch) with the CommandResult it leaves behind; called only on a
\* non-empty buffer (an empty one returns None, see DrainGate)
generate_result_batch(blen, r) ==
    LET is_last == IsLast(Len(r.output), blen)
        cut     == DrainFront(r.output, IF is_last THEN Len(r.output) ELSE blen)
        digest  == Md5Update(r.digest, cut.content)
    IN  [pb |-> CommandResultPb(Some(r.errno), Some(r.total_len),
                                Some(PktCount(r.total_len, blen)),
                                Some(cut.content),
                                IF is_last THEN Some(Md5Hex(digest)) ELSE None),
         result |-> [r EXCEPT !.output = cut.rest,
                              !.digest = IF is_last THEN Md5New ELSE digest]]

\* a helper that never passes the exit code on
command_failed_helper_no_code(request_id, code, msg) ==
    Response(request_id, Some(msg),
             Some([DefaultCommandResultPb EXCEPT !.errno = None]), << >>, << >>)

\* a helper that never echoes the request's id
command_failed_helper_no_id(request_id, code, msg) ==
    Response(None, Some(msg),
             Some([DefaultCommandResultPb EXCEPT !.errno = code]), << >>, << >>)

\* Responser::command_failed_helper
command_failed_helper(request_id, code, msg) ==
    Response(request_id, Some(msg),
             Some([DefaultCommandResultPb EXCEPT !.errno = code]), << >>, << >>)

(***************************************************************************)
(* The gates of Responser::poll_next, in the order the loop tries them.    *)
(***************************************************************************)
CmdReady == pending_command # None /\ pending_command[1].future.state = "ready"
LsnsReady == pending_lsns # None /\ pending_lsns[1].future.state = "ready"

\* 1. generate_result_batch returns Some
DrainGate == result.output # << >>

\* 2. the pending command is polled and is ready
CommandGate == ~DrainGate /\ CmdReady

\* a loop that resolves the listing whenever it is ready
LsnsGate_first == LsnsReady

\* 3. the pending listing is polled and is ready
LsnsGate == ~DrainGate /\ ~CmdReady /\ LsnsReady

\* a loop that polls the channel before anything else
IntakeGate_first == TRUE

\* 4. msg_recv.poll_recv is reached
IntakeGate == ~DrainGate /\ ~CmdReady /\ ~LsnsReady

\* a loop that polls the ticker whenever the channel is empty
HeartbeatGate_early == chan = << >> /\ sender_alive

\* 5. heartbeat.poll_tick is reached: poll_recv returned Pending
HeartbeatGate == IntakeGate /\ chan = << >> /\ sender_alive

(***************************************************************************)
(* History bookkeeping.                                                    *)
(***************************************************************************)
\* a response leaves on the stream; `terminal` responses end their request
Emit(base, resp, req, terminal) ==
    /\ last' = Some([resp |-> resp, req |-> req])
    /\ reqs' = IF terminal /\ req > 0
               THEN [base EXCEPT ![req].answers = @ + 1]
               ELSE base

Taken(msg) == Append(reqs, [request_id |-> msg.request_id, answers |-> 0])

\* a step that emits nothing
Silent == last' = None

\* a step that leaves the host alone
Harmless == fx' = NoFx

\* the record of a stream is kept while the stream is on and in the state
\* that follows its final chunk
StreamKept ==
    IF result.output # << >>
    THEN UNCHANGED <<stream, chunks>>
    ELSE stream' = NoStream /\ chunks' = << >>

(***************************************************************************)
(* Gate 1: send the remaining buffered command output.                     *)
(***************************************************************************)
Drain ==
    /\ ~terminated
    /\ DrainGate
    /\ LET batch == generate_result_batch(batch_len, result)
       IN  /\ result' = batch.result
           /\ chunks' = Append(chunks, batch.pb)
           /\ Emit(reqs, Response(result.request_id, None, Some(batch.pb), << >>, << >>),
                   owner.result, batch.pb.md5 # None)
    /\ Harmless
    /\ UNCHANGED <<lister, validated, supervisor, executor,
                   batch_len, pending_lsns, pending_command, terminated,
                   chan, sender_alive, nsent, owner, stream>>

(***************************************************************************)
(* Gate 2: the pending command has completed.                              *)
(***************************************************************************)
\* a take that leaves the value where it was
take_peek(opt) == [value |-> opt[1], left |-> opt]

\* Option::take on a Some: the value comes out and None is left behind
take(opt) == [value |-> opt[1], left |-> None]

\* an arm selection that forgets the test for empty stdout
CommandArm_no_empty(res) ==
    IF res.tag = "ok" /\ res.code = Some(0) THEN "populate"
    ELSE IF res.tag = "ok" /\ res.code # None THEN "code"
    ELSE IF res.tag = "ok" THEN "nocode"
    ELSE "err"

\* the arm of the match on the future's result; status.success() is an
\* exit code of 0
CommandArm(res) ==
    IF res.tag = "ok" /\ res.code = Some(0)
    THEN (IF res.stdout = << >> THEN "empty" ELSE "populate")
    ELSE IF res.tag = "ok" /\ res.code # None THEN "code"
    ELSE IF res.tag = "ok" THEN "nocode"
    ELSE "err"

\* success with empty stdout: one empty CommandResult
CommandSucceededEmpty ==
    /\ ~terminated
    /\ CommandGate
    /\ CommandArm(pending_command[1].future.res) = "empty"
    /\ pending_command' = take(pending_command).left
    /\ owner' = [owner EXCEPT !.cmd = 0]
    /\ Emit(reqs, Response(pending_command[1].request_id, None,
                           Some(DefaultCommandResultPb), << >>, << >>),
            owner.cmd, TRUE)
    /\ Harmless
    /\ StreamKept
    /\ UNCHANGED <<lister, validated, supervisor, executor,
                   batch_len, pending_lsns, result, terminated,
                   chan, sender_alive, nsent>>

\* success with output: the result is populated and the loop restarts
CommandSucceeded ==
    /\ ~terminated
    /\ CommandGate
    /\ CommandArm(pending_command[1].future.res) = "populate"
    /\ LET output == pending_command[1].future.res.stdout
       IN  /\ result' = [request_id |-> pending_command[1].request_id,
                         errno |-> 0,
                         output |-> output,
                         total_len |-> Len(output),
                         digest |-> Md5New]
           /\ stream' = [req |-> owner.cmd, stdout |-> output, batch_len |-> batch_len]
    /\ chunks' = << >>
    /\ pending_command' = take(pending_command).left
    /\ owner' = [owner EXCEPT !.cmd = 0, !.result = owner.cmd]
    /\ Silent
    /\ Harmless
    /\ UNCHANGED <<lister, validated, supervisor, executor,
                   batch_len, pending_lsns, terminated,
                   chan, sender_alive, nsent, reqs>>

\* exit with a non-zero code, exit without a code, or an I/O error
CommandFailed ==
    /\ ~terminated
    /\ CommandGate
    /\ LET res == pending_command[1].future.res
           arm == CommandArm(res)
       IN  /\ arm \in {"code", "nocode", "err"}
           /\ Emit(reqs,
                   command_failed_helper(
                       pending_command[1].request_id,
                       IF arm = "code" THEN res.code ELSE None,
                       CASE arm = "code"   -> "command failed with code"
                         [] arm = "nocode" -> "command execute terminated without errno"
                         [] arm = "err"    -> "command execute failed"),
                   owner.cmd, TRUE)
    /\ pending_command' = take(pending_command).left
    /\ owner' = [owner EXCEPT !.cmd = 0]
    /\ Harmless
    /\ StreamKept
    /\ UNCHANGED <<lister, validated, supervisor, executor,
                   batch_len, pending_lsns, result, terminated,
                   chan, sender_alive, nsent>>

(***************************************************************************)
(* Gate 3: the pending namespace listing has completed.                    *)
(***************************************************************************)
ListNamespaceDone ==
    /\ ~terminated
    /\ LsnsGate
    /\ LET res == pending_lsns[1].future.res
       IN  Emit(reqs,
                IF res.tag = "ok"
                THEN Response(pending_lsns[1].request_id, None, None,
                              res.namespaces, << >>)
                ELSE Response(pending_lsns[1].request_id,
                              Some("list namespace failed"), None, << >>, << >>),
                owner.lsns, TRUE)
    /\ pending_lsns' = take(pending_lsns).left
    /\ owner' = [owner EXCEPT !.lsns = 0]
    /\ Harmless
    /\ StreamKept
    /\ UNCHANGED <<lister, validated, supervisor, executor,
                   batch_len, pending_command, result, terminated,
                   chan, sender_alive, nsent>>

(***************************************************************************)
(* Gate 4: a request from the intake channel.                              *)
(***************************************************************************)
Future(kind) == [kind |-> kind, state |-> "running", res |-> NoOutput]

ParamNotFoundMsg(name) ==
    CASE name = "ns"  -> "param ns not found"
      [] name = "pod" -> "param pod not found"

Reject(msg, effects) == [errmsg |-> Some(msg), future |-> None, fx |-> effects]
Accept(kind, effects) ==
    [errmsg |-> None, future |-> Some(kind),
     fx |-> [effects EXCEPT !.registered = TRUE]]

\* MIN_BATCH_LEN.max(batch_len as usize), without the clamp
ClampBatchLen_raw(b) == b

\* MIN_BATCH_LEN.max(batch_len as usize)
ClampBatchLen(b) == Max(MIN_BATCH_LEN, b)

\* every pid names a foreign namespace
IsForeign_any(linux_ns_pid) == linux_ns_pid # None

\* Some(pid) if pid != process::id()
IsForeign(linux_ns_pid) == linux_ns_pid # None /\ linux_ns_pid[1] # OwnPid

\* what the host calls of one RunCommand return: File::open of the
\* namespace file, set_netns and reset_netns
HostOutcomes == [open_ok : BOOLEAN, set_ok : BOOLEAN, reset_ok : BOOLEAN]

\* the spawn without the reset_netns that follows it
SpawnEffects_no_leave(opened, foreign, host) ==
    [opened EXCEPT !.entered = foreign,
                   !.spawned = TRUE,
                   !.spawned_in_foreign = foreign /\ host.set_ok,
                   !.in_foreign = foreign /\ host.set_ok]

\* set_netns if a namespace file is held, cmd.output() (which spawns),
\* reset_netns if a namespace file is held; a failure of either call is
\* logged and nothing else
SpawnEffects(opened, foreign, host) ==
    [opened EXCEPT !.entered = foreign,
                   !.spawned = TRUE,
                   !.spawned_in_foreign = foreign /\ host.set_ok,
                   !.left = foreign,
                   !.in_foreign = foreign /\ host.set_ok /\ ~host.reset_ok]

\* a dispatch on the command type alone
DispatchOf_by_type(cmd) ==
    IF cmd.command_type.ty = "Kubernetes" THEN "kube" ELSE "spawn"

\* what serves a command: lsns_command for the command line lsns,
\* kubectl_execute for a Kubernetes command, a subprocess for the rest
DispatchOf(cmd) ==
    IF cmd.cmdline = "lsns" THEN "lsns"
    ELSE IF cmd.command_type.ty = "Kubernetes" THEN "kube"
    ELSE "spawn"

\* the outcome of the RunCommand arm after the batch_len update: an error
\* message, or the kind of future to register, with what was done to the
\* host on the way.
RunDecision(msg, host) ==
    IF msg.command_id = None
    THEN Reject("command_id not specified", NoFx)
    ELSE IF get_cmd(msg.command_id[1]) = None
    THEN Reject("command_id not specified or invalid in run command request", NoFx)
    ELSE
    LET cmd     == get_cmd(msg.command_id[1])[1]
        params  == TruncateParams(msg.params)
        foreign == IsForeign(msg.linux_ns_pid)
        opened  == [NoFx EXCEPT !.opened = foreign]
    IN  IF ~is_valid(params)
        THEN Reject("rejected run command with invalid params", NoFx)
        ELSE IF foreign /\ ~host.open_ok
        THEN Reject("open namespace file failed", opened)
        ELSE IF DispatchOf(cmd) = "lsns"
        THEN Accept("lsns", opened)
        ELSE IF DispatchOf(cmd) = "kube"
        THEN (IF kubectl_execute(cmd.command_type.kcmd, params).ok
              THEN Accept("kube", opened)
              ELSE Reject(ParamNotFoundMsg(
                              kubectl_execute(cmd.command_type.kcmd, params).missing),
                          opened))
        ELSE IF FirstMissingArg(cmd.cmdline, params) # None
        THEN Reject("parameter not found in command", opened)
        ELSE Accept("spawn", SpawnEffects(opened, foreign, host))

\* ListCommand: the catalog is returned at once
IntakeListCommand ==
    /\ ~terminated
    /\ IntakeGate
    /\ chan # << >>
    /\ ExecTypeOf(Head(chan)) = ListCommand
    /\ chan' = Tail(chan)
    /\ Emit(Taken(Head(chan)),
            Response(Head(chan).request_id, None, None, << >>, CommandList),
            Len(reqs) + 1, TRUE)
    /\ Harmless
    /\ StreamKept
    /\ UNCHANGED <<lister, validated, supervisor, executor,
                   batch_len, pending_lsns, pending_command, result, terminated,
                   sender_alive, nsent, owner>>

\* ListNamespace: a listing future is registered and the loop restarts
IntakeListNamespace ==
    /\ ~terminated
    /\ IntakeGate
    /\ chan # << >>
    /\ ExecTypeOf(Head(chan)) = ListNamespace
    /\ chan' = Tail(chan)
    /\ pending_lsns' = Some([request_id |-> Head(chan).request_id,
                             future |-> [state |-> "running",
                                         res |-> [tag |-> "none",
                                                  namespaces |-> << >>]]])
    /\ reqs' = Taken(Head(chan))
    /\ owner' = [owner EXCEPT !.lsns = Len(reqs) + 1]
    /\ Silent
    /\ Harmless
    /\ StreamKept
    /\ UNCHANGED <<lister, validated, supervisor, executor,
                   batch_len, pending_command, result, terminated,
                   sender_alive, nsent>>

\* RunCommand: rejected with one error response, or a command future is
\* registered and the loop restarts
IntakeRunCommand ==
    /\ ~terminated
    /\ IntakeGate
    /\ chan # << >>
    /\ ExecTypeOf(Head(chan)) = RunCommand
    /\ chan' = Tail(chan)
    /\ batch_len' = IF Head(chan).batch_len # None
                    THEN ClampBatchLen(Head(chan).batch_len[1])
                    ELSE batch_len
    /\ \E host \in HostOutcomes :
         LET msg == Head(chan)
             d   == RunDecision(msg, host)
         IN  /\ fx' = d.fx
             /\ IF d.future = None
                THEN /\ Emit(Taken(msg),
                             command_failed_helper(msg.request_id, None, d.errmsg[1]),
                             Len(reqs) + 1, TRUE)
                     /\ UNCHANGED <<pending_command, owner>>
                ELSE /\ pending_command' =
                            Some([request_id |-> msg.request_id,
                                  id |-> msg.command_id[1],
                                  future |-> Future(d.future[1])])
                     /\ owner' = [owner EXCEPT !.cmd = Len(reqs) + 1]
                     /\ reqs' = Taken(msg)
                     /\ Silent
    /\ StreamKept
    /\ UNCHANGED <<lister, validated, supervisor, executor,
                   pending_lsns, result, terminated, sender_alive, nsent>>

\* the sender is gone and the channel is drained: the stream ends
ChannelClosed ==
    /\ ~terminated
    /\ IntakeGate
    /\ chan = << >>
    /\ ~sender_alive
    /\ terminated' = TRUE
    /\ Silent
    /\ Harmless
    /\ StreamKept
    /\ UNCHANGED <<lister, validated, supervisor, executor,
                   batch_len, pending_lsns, pending_command, result,
                   chan, sender_alive, nsent, reqs, owner>>

(***************************************************************************)
(* Gate 5: the heartbeat ticker fires.                                     *)
(***************************************************************************)
Heartbeat ==
    /\ ~terminated
    /\ HeartbeatGate
    /\ Emit(reqs, Response(None, None, None, << >>, << >>), 0, FALSE)
    /\ Harmless
    /\ StreamKept
    /\ UNCHANGED <<lister, validated, supervisor, executor,
                   batch_len, pending_lsns, pending_command, result, terminated,
                   chan, sender_alive, nsent, owner>>

(***************************************************************************)
(* Environment: the futures complete, the supervisor forwards requests     *)
(* and, at the end of the session, drops the sender.                       *)
(***************************************************************************)
CommandCompletes ==
    /\ ~terminated
    /\ pending_command # None
    /\ pending_command[1].future.state = "running"
    /\ \E res \in Outcomes(pending_command[1].future.kind) :
         pending_command' =
             Some([pending_command[1] EXCEPT !.future.state = "ready",
                                             !.future.res = res])
    /\ Silent
    /\ Harmless
    /\ StreamKept
    /\ UNCHANGED <<lister, validated, supervisor, executor,
                   batch_len, pending_lsns, result, terminated,
                   chan, sender_alive, nsent, reqs, owner>>

ListNamespaceCompletes ==
    /\ ~terminated
    /\ pending_lsns # None
    /\ pending_lsns[1].future.state = "running"
    /\ \E res \in LsnsOutcomes :
         pending_lsns' =
             Some([pending_lsns[1] EXCEPT !.future.state = "ready",
                                          !.future.res = res])
    /\ Silent
    /\ Harmless
    /\ StreamKept
    /\ UNCHANGED <<lister, validated, supervisor, executor,
                   batch_len, pending_command, result, terminated,
                   chan, sender_alive, nsent, reqs, owner>>

\* a send into a channel without a bound
SendReady_unbounded(c) == TRUE

\* mpsc::channel(1): sender.send(message).await completes when the
\* channel has room for the message, and waits until then
SendReady(c) == Len(c) < 1

\* sender.send(message).await: returns once the channel has room
Forward ==
    /\ sender_alive
    /\ ~terminated
    /\ nsent < MaxRequests
    /\ SendReady(chan)
    /\ \E m \in Requests(nsent + 1) : chan' = Append(chan, m)
    /\ nsent' = nsent + 1
    /\ Silent
    /\ Harmless
    /\ StreamKept
    /\ UNCHANGED <<lister, validated, supervisor, executor,
                   batch_len, pending_lsns, pending_command, result, terminated,
                   sender_alive, reqs, owner>>

\* the supervisor leaves its receive loop; the sender goes out of scope
DropSender ==
    /\ sender_alive
    /\ ~terminated
    /\ sender_alive' = FALSE
    /\ Silent
    /\ Harmless
    /\ StreamKept
    /\ UNCHANGED <<lister, validated, supervisor, executor,
                   batch_len, pending_lsns, pending_command, result, terminated,
                   chan, nsent, reqs, owner>>

Next ==
    \/ Drain
    \/ CommandSucceededEmpty
    \/ CommandSucceeded
    \/ CommandFailed
    \/ ListNamespaceDone
    \/ IntakeListCommand
    \/ IntakeListNamespace
    \/ IntakeRunCommand
    \/ ChannelClosed
    \/ Heartbeat
    \/ CommandCompletes
    \/ ListNamespaceCompletes
    \/ Forward
    \/ DropSender

Spec == Init /\ [][Next]_vars

(***************************************************************************)
(* The parameter validator on its own: is_valid applied to parameter       *)
(* lists of up to MaxParamList entries.                                    *)
(***************************************************************************)
\* bytes on both sides of every edge of the accepted ranges
SampleBytes == {32, 45, 47, 48, 57, 58, 64, 65, 90, 91, 95, 97, 122, 123}

SampleKeys == {None, Some(""), Some("ns")}

SampleValues ==
    {None, Some(<< >>), Some(<<97, 45, 95, 57>>), Some(<<97, 32, 98>>)}
    \cup { Some(<<b>>) : b \in SampleBytes }

SampleParams == { Param(k, v) : k \in SampleKeys, v \in SampleValues }

RECURSIVE ListsUpTo(_, _)
ListsUpTo(S, n) ==
    IF n = 0 THEN { << >> }
    ELSE LET shorter == ListsUpTo(S, n - 1)
         IN  shorter \cup { Append(l, e) : l \in { x \in shorter : Len(x) = n - 1 },
                                           e \in S }

\* a list is handed to the validator
InitParams ==
    /\ InitSession
    /\ NoExecutor
    /\ NoLister
    /\ \E ps \in ListsUpTo(SampleParams, MaxParamList) :
         validated = Some([params |-> ps, verdict |-> None])

\* Params(&list).is_valid()
Validate ==
    /\ validated # None
    /\ validated[1].verdict = None
    /\ validated' = Some([validated[1] EXCEPT !.verdict = Some(is_valid(validated[1].params))])
    /\ UNCHANGED <<batch_len, pending_lsns, pending_command, result, terminated,
                   chan, sender_alive, nsent,
                   reqs, owner, last, stream, chunks, fx, supervisor, executor,
                   lister>>

SpecParams == InitParams /\ [][Validate]_vars

(***************************************************************************)
(* Executor::start and Executor::stop, called from any number of threads.  *)
(***************************************************************************)
\* the threads that call start and stop, and the calls each of them makes
MaxCallers == 2
MaxCalls == 3

\* a swap that tells every caller the flag was clear
swap_blind(flag, new) == [old |-> FALSE, flag |-> new]

\* AtomicBool::swap(new, SeqCst): the new value is stored and the old one
\* returned, in one step
swap(flag, new) == [old |-> flag, flag |-> new]

\* a caller between calls, having made no call yet
IdleCaller == [pc |-> "idle", calls |-> 0, started |-> 0, stopped |-> 0]

\* Executor::start up to the swap: a caller that finds the flag set
\* returns, one that finds it clear goes on to spawn the supervisor
StartSwap(c) ==
    /\ callers[c].pc = "idle"
    /\ callers[c].calls < MaxCalls
    /\ running' = swap(running, TRUE).flag
    /\ callers' = [callers EXCEPT
                     ![c] = IF swap(running, TRUE).old
                            THEN [@ EXCEPT !.calls = @ + 1]
                            ELSE [@ EXCEPT !.pc = "spawn", !.started = @ + 1]]
    /\ UNCHANGED tasks

\* Executor::start after the swap: runtime.spawn(interior.run())
StartSpawn(c) ==
    /\ callers[c].pc = "spawn"
    /\ tasks' = Append(tasks, [pc |-> "head"])
    /\ callers' = [callers EXCEPT ![c] = [@ EXCEPT !.pc = "idle", !.calls = @ + 1]]
    /\ UNCHANGED running

\* Executor::stop
StopSwap(c) ==
    /\ callers[c].pc = "idle"
    /\ callers[c].calls < MaxCalls
    /\ running' = swap(running, FALSE).flag
    /\ callers' = [callers EXCEPT
                     ![c] = [@ EXCEPT !.calls = @ + 1,
                                      !.stopped = IF swap(running, FALSE).old
                                                  THEN @ + 1 ELSE @]]
    /\ UNCHANGED tasks

\* the rest of the program does not move while a caller is in start or stop
ExecutorOnly ==
    UNCHANGED <<batch_len, pending_lsns, pending_command, result, terminated,
                chan, sender_alive, nsent, reqs, owner, last, stream, chunks, fx,
                validated, sup, session, exc, inbound, lister>>

ExecutorStart(c) == StartSwap(c) /\ ExecutorOnly
ExecutorSpawn(c) == StartSpawn(c) /\ ExecutorOnly
ExecutorStop(c) == StopSwap(c) /\ ExecutorOnly

\* Executor::new: the flag is clear and nothing has been spawned
InitExecutor ==
    /\ InitSession
    /\ validated = None
    /\ running = FALSE
    /\ sup = [pc |-> "none"]
    /\ session = [version |-> 0, request_failed |-> FALSE]
    /\ exc = 0
    /\ inbound = << >>
    /\ callers = [c \in 1..MaxCallers |-> IdleCaller]
    /\ tasks = << >>
    /\ NoLister

\* a spawned task at the head of one of the loops of Interior::run:
\* self.running.load() decides whether it goes into the loop body or, the
\* flag being clear, leaves both loops and ends
TaskReadsFlag(t) ==
    /\ tasks[t].pc = "head"
    /\ tasks' = [tasks EXCEPT ![t].pc = IF running THEN "body" ELSE "done"]
    /\ UNCHANGED <<running, callers>>
    /\ ExecutorOnly

\* a task inside the loops (calling, awaiting a message, sending,
\* sleeping) comes back to the head of a loop
TaskLoops(t) ==
    /\ tasks[t].pc = "body"
    /\ tasks' = [tasks EXCEPT ![t].pc = "head"]
    /\ UNCHANGED <<running, callers>>
    /\ ExecutorOnly

NextExecutor ==
    \/ \E c \in DOMAIN callers : ExecutorStart(c)
    \/ \E c \in DOMAIN callers : ExecutorSpawn(c)
    \/ \E c \in DOMAIN callers : ExecutorStop(c)
    \/ \E t \in DOMAIN tasks : TaskReadsFlag(t)
    \/ \E t \in DOMAIN tasks : TaskLoops(t)

SpecExecutor == InitExecutor /\ [][NextExecutor]_vars

(***************************************************************************)
(* Interior::run, the supervisor, with the stream it reads and the         *)
(* responder of its session.  The responder's variables follow the         *)
(* Responser of the latest call of remote_execute.                         *)
(***************************************************************************)
\* iterations of the outer loop, events on the response streams, and
\* changes of the session version in one run
MaxIterations == 2
MaxInbound == 1
MaxVersion == 1

\* the requests the server sends: one without exec_type, one with an
\* exec_type outside the enumeration, and one of each kind
ServerMessages ==
    { WireRequest(None, Some(21), None, << >>, None, None),
      WireRequest(Some(7), Some(22), None, << >>, None, None),
      Request(ListCommand, Some(23), None, << >>, None, None),
      Request(ListNamespace, Some(24), None, << >>, None, None),
      Request(RunCommand, Some(25), Some(2), << >>, None, None) }

\* what stream.message().await returns: Ok(Some(message)), Ok(None), Err
ServerEvents ==
    { [tag |-> "message", message |-> Some(msg)] : msg \in ServerMessages }
    \cup { [tag |-> "end", message |-> None], [tag |-> "err", message |-> None] }

\* no call is open
NoStreaming == [open |-> FALSE, next |-> << >>, count |-> 0]

\* the supervisor's step does not concern the responder
ResponderUntouched ==
    /\ Silent
    /\ Harmless
    /\ StreamKept
    /\ UNCHANGED <<lister, validated, batch_len, pending_lsns, pending_command, result,
                   terminated, chan, sender_alive, nsent, reqs, owner>>

\* the end of an iteration of the outer loop: sender and stream go out of
\* scope
EndsIteration ==
    /\ sender_alive' = FALSE
    /\ inbound' = [inbound EXCEPT !.open = FALSE, !.next = << >>]
    /\ Silent
    /\ Harmless
    /\ StreamKept
    /\ UNCHANGED <<lister, validated, batch_len, pending_lsns, pending_command, result,
                   terminated, chan, nsent, reqs, owner>>

\* the same, forwarding whatever comes
Decide_no_filter(message, recorded, current) ==
    IF recorded # current THEN "break" ELSE "send"

\* what the inner loop does with a message it has received: the version
\* check, then the exec_type filter
Decide(message, recorded, current) ==
    IF recorded # current THEN "break"
    ELSE IF message.exec_type = None THEN "continue"
    ELSE IF from_i32(message.exec_type[1]) = None THEN "continue"
    ELSE "send"

\* the same, leaving the session as it was
set_request_failed_ignored(s, v) == s

\* Session::set_request_failed(v)
set_request_failed(s, v) == [s EXCEPT !.request_failed = v]

\* the same, leaving run altogether
Break_returns(s) == [s EXCEPT !.pc = "done", !.message = None]

\* the inner loop is left, by break or by its condition: control is back at
\* the head of the outer loop
Break(s) == [s EXCEPT !.pc = "head", !.message = None]

\* while self.running.load(): the flag is clear and run returns
SupervisorExits ==
    /\ sup.pc = "head"
    /\ ~running
    /\ sup' = [sup EXCEPT !.pc = "done"]
    /\ ResponderUntouched
    /\ UNCHANGED <<running, session, exc, inbound, executor>>

\* the top of the outer loop: channel(1), Responser::new,
\* update_current_server, get_version
Iterate ==
    /\ sup.pc = "head"
    /\ running
    /\ sup.iterations < MaxIterations
    /\ sup' = [sup EXCEPT !.pc = "client",
                          !.session_version = session.version,
                          !.iterations = @ + 1]
    /\ ResponderUntouched
    /\ UNCHANGED <<running, session, exc, inbound, executor>>

\* get_client returns None: set_request_failed(true), then the sleep
NoClient ==
    /\ sup.pc = "client"
    /\ session' = set_request_failed(session, TRUE)
    /\ sup' = [sup EXCEPT !.pc = "sleep"]
    /\ ResponderUntouched
    /\ UNCHANGED <<running, exc, inbound, executor>>

\* get_client returns a client: remote_execute(responser) is called, and
\* the transport polls the new Responser from now on
Call ==
    /\ sup.pc = "client"
    /\ sup' = [sup EXCEPT !.pc = "open"]
    /\ batch_len' = DefaultBatchLen
    /\ pending_lsns' = None
    /\ pending_command' = None
    /\ result' = DefaultCommandResult
    /\ terminated' = FALSE
    /\ chan' = << >>
    /\ sender_alive' = TRUE
    /\ nsent' = 0
    /\ reqs' = << >>
    /\ owner' = [cmd |-> 0, lsns |-> 0, result |-> 0]
    /\ last' = None
    /\ stream' = NoStream
    /\ chunks' = << >>
    /\ fx' = NoFx
    /\ UNCHANGED <<lister, validated, running, session, exc, inbound, executor>>

\* remote_execute returns an error: ControllerSocketError, then the sleep;
\* the call is over and its Responser dropped
OpenFails ==
    /\ sup.pc = "open"
    /\ exc' = exc + 1
    /\ sup' = [sup EXCEPT !.pc = "sleep"]
    /\ terminated' = TRUE
    /\ sender_alive' = FALSE
    /\ Silent
    /\ Harmless
    /\ StreamKept
    /\ UNCHANGED <<lister, validated, batch_len, pending_lsns, pending_command, result,
                   chan, nsent, reqs, owner>>
    /\ UNCHANGED <<running, session, inbound, executor>>

\* remote_execute returns the response stream
OpenOk ==
    /\ sup.pc = "open"
    /\ sup' = [sup EXCEPT !.pc = "inner"]
    /\ inbound' = [inbound EXCEPT !.open = TRUE, !.next = << >>]
    /\ ResponderUntouched
    /\ UNCHANGED <<running, session, exc, executor>>

\* tokio::time::sleep(RPC_RETRY_INTERVAL) is over: continue
Wakes ==
    /\ sup.pc = "sleep"
    /\ sup' = [sup EXCEPT !.pc = "head"]
    /\ ResponderUntouched
    /\ UNCHANGED <<running, session, exc, inbound, executor>>

\* the head of the inner loop with the flag set: stream.message() is
\* awaited
InnerAwaits ==
    /\ sup.pc = "inner"
    /\ running
    /\ sup' = [sup EXCEPT !.pc = "await"]
    /\ ResponderUntouched
    /\ UNCHANGED <<running, session, exc, inbound, executor>>

\* the head of the inner loop with the flag clear
InnerExits ==
    /\ sup.pc = "inner"
    /\ ~running
    /\ sup' = Break(sup)
    /\ EndsIteration
    /\ UNCHANGED <<running, session, exc, executor>>

\* message() returns Ok(None): the server closed the stream
ReceiveEnd ==
    /\ sup.pc = "await"
    /\ inbound.next # << >>
    /\ Head(inbound.next).tag = "end"
    /\ sup' = Break(sup)
    /\ EndsIteration
    /\ UNCHANGED <<running, session, exc, executor>>

\* message() returns Err: ControllerSocketError, break
ReceiveErr ==
    /\ sup.pc = "await"
    /\ inbound.next # << >>
    /\ Head(inbound.next).tag = "err"
    /\ exc' = exc + 1
    /\ sup' = Break(sup)
    /\ EndsIteration
    /\ UNCHANGED <<running, session, executor>>

\* message() returns a message: break if the session version has changed,
\* continue if its exec_type is absent or unknown, else go and send it
ReceiveMessage ==
    /\ sup.pc = "await"
    /\ inbound.next # << >>
    /\ Head(inbound.next).tag = "message"
    /\ LET message == Head(inbound.next).message[1]
           d == Decide(message, sup.session_version, session.version)
       IN  CASE d = "break" ->
                  /\ sup' = Break(sup)
                  /\ EndsIteration
             [] d = "continue" ->
                  /\ sup' = [sup EXCEPT !.pc = "inner"]
                  /\ inbound' = [inbound EXCEPT !.next = << >>]
                  /\ ResponderUntouched
             [] d = "send" ->
                  /\ sup' = [sup EXCEPT !.pc = "send", !.message = Some(message)]
                  /\ inbound' = [inbound EXCEPT !.next = << >>]
                  /\ ResponderUntouched
    /\ UNCHANGED <<running, session, exc, executor>>

\* sender.send(message).await completes: the message is in the channel
SendOk ==
    /\ sup.pc = "send"
    /\ ~terminated
    /\ SendReady(chan)
    /\ chan' = Append(chan, sup.message[1])
    /\ nsent' = nsent + 1
    /\ sup' = [sup EXCEPT !.pc = "inner", !.message = None]
    /\ Silent
    /\ Harmless
    /\ StreamKept
    /\ UNCHANGED <<lister, validated, batch_len, pending_lsns, pending_command, result,
                   terminated, sender_alive, reqs, owner>>
    /\ UNCHANGED <<running, session, exc, inbound, executor>>

\* sender.send(message).await fails, the receiver being gone: break
SendFails ==
    /\ sup.pc = "send"
    /\ terminated
    /\ sup' = Break(sup)
    /\ EndsIteration
    /\ UNCHANGED <<running, session, exc, executor>>

\* the server sends a request, closes the stream, or the transport fails
ServerSends ==
    /\ inbound.open
    /\ inbound.next = << >>
    /\ inbound.count < MaxInbound
    /\ \E e \in ServerEvents :
         inbound' = [inbound EXCEPT !.next = <<e>>, !.count = @ + 1]
    /\ ResponderUntouched
    /\ UNCHANGED <<running, sup, session, exc, executor>>

\* the session moves to another server
VersionAdvances ==
    /\ session.version < MaxVersion
    /\ session' = [session EXCEPT !.version = @ + 1]
    /\ ResponderUntouched
    /\ UNCHANGED <<running, sup, exc, inbound, executor>>

\* the call is reset from the server's side and the transport drops the
\* Responser, with the receiver and the futures it holds
ResponderDropped ==
    /\ inbound.open
    /\ ~terminated
    /\ terminated' = TRUE
    /\ chan' = << >>
    /\ pending_command' = None
    /\ pending_lsns' = None
    /\ result' = DefaultCommandResult
    /\ Silent
    /\ Harmless
    /\ stream' = NoStream
    /\ chunks' = << >>
    /\ UNCHANGED <<lister, validated, batch_len, sender_alive, nsent, reqs, owner>>
    /\ UNCHANGED <<supervisor, executor>>

\* the task has been spawned by a start; one thread may call stop
InitSupervisor ==
    /\ batch_len = DefaultBatchLen
    /\ pending_lsns = None
    /\ pending_command = None
    /\ result = DefaultCommandResult
    /\ terminated = TRUE
    /\ chan = << >>
    /\ sender_alive = FALSE
    /\ nsent = 0
    /\ reqs = << >>
    /\ owner = [cmd |-> 0, lsns |-> 0, result |-> 0]
    /\ last = None
    /\ stream = NoStream
    /\ chunks = << >>
    /\ fx = NoFx
    /\ validated = None
    /\ running = TRUE
    /\ sup = [pc |-> "head", session_version |-> 0, iterations |-> 0, message |-> None]
    /\ session = [version |-> 0, request_failed |-> FALSE]
    /\ exc = 0
    /\ inbound = NoStreaming
    /\ callers = <<[IdleCaller EXCEPT !.started = 1, !.calls = MaxCalls - 1]>>
    /\ tasks = <<[pc |-> "head"]>>
    /\ NoLister

\* the supervisor's own steps
SupervisorNext ==
    \/ SupervisorExits
    \/ Iterate
    \/ NoClient
    \/ Call
    \/ OpenFails
    \/ OpenOk
    \/ Wakes
    \/ InnerAwaits
    \/ InnerExits
    \/ ReceiveEnd
    \/ ReceiveErr
    \/ ReceiveMessage
    \/ SendOk
    \/ SendFails

NextSupervisor ==
    \/ SupervisorNext
    \/ ServerSends
    \/ VersionAdvances
    \/ ResponderDropped
    \/ \E c \in DOMAIN callers : ExecutorStop(c)
    \/ Drain
    \/ CommandSucceededEmpty
    \/ CommandSucceeded
    \/ CommandFailed
    \/ ListNamespaceDone
    \/ IntakeListCommand
    \/ IntakeListNamespace
    \/ IntakeRunCommand
    \/ ChannelClosed
    \/ Heartbeat
    \/ CommandCompletes
    \/ ListNamespaceCompletes

SpecSupervisor == InitSupervisor /\ [][NextSupervisor]_vars

\* the supervisor, scheduled by the runtime, takes every step it can take
FairSupervisor == SpecSupervisor /\ WF_vars(SupervisorNext)

(***************************************************************************)
(* lsns: the namespaces of the processes under /proc, one entry per inode. *)
(* Of the namespace files of a process the model follows one, its net      *)
(* namespace.                                                              *)
(***************************************************************************)
\* processes under /proc; the pid of the p-th is p
MaxProcs == 3

\* the inodes a namespace file can have
Inodes == {4026, 4027}

\* a process read_dir yields but lsns skips: not a directory, or its
\* metadata, command line or namespace file cannot be read
Skipped == 0

\* Namespace, as lsns builds it for a namespace file of process pid; user
\* and command are those of the process
Namespace(id, pid) ==
    [id |-> id, ty |-> "net", nprocs |-> 1, pid |-> pid,
     user |-> [uid |-> 1000 + pid], command |-> [cmdline_of |-> pid]]

\* a merge that counts and keeps the entry it has
merge_keeps_self(self, rhs) == [self EXCEPT !.nprocs = @ + 1]

\* Namespace::merge: the value of *self when it returns
merge(self, rhs) ==
    IF self.pid < rhs.pid
    THEN [self EXCEPT !.nprocs = @ + 1]
    ELSE [rhs EXCEPT !.nprocs = @ + 1]

\* match ns_by_id.entry(nsid): Occupied merges, Vacant inserts
Upsert(map, ns) ==
    IF ns.id \in DOMAIN map
    THEN [map EXCEPT ![ns.id] = merge(@, ns)]
    ELSE [k \in DOMAIN map \cup {ns.id} |-> IF k = ns.id THEN ns ELSE map[k]]

\* the rest of the program does not move while lsns runs
ListerOnly ==
    UNCHANGED <<batch_len, pending_lsns, pending_command, result, terminated,
                chan, sender_alive, nsent, reqs, owner, last, stream, chunks, fx,
                validated, supervisor, executor>>

\* the next entry of /proc is skipped
SkipsProcess ==
    /\ iter # << >>
    /\ inode_of[Head(iter)] = Skipped
    /\ iter' = Tail(iter)
    /\ UNCHANGED <<inode_of, ns_by_id>>
    /\ ListerOnly

\* the namespace file of the next entry of /proc goes into the map
VisitsNamespace ==
    /\ iter # << >>
    /\ inode_of[Head(iter)] # Skipped
    /\ ns_by_id' = Upsert(ns_by_id, Namespace(inode_of[Head(iter)], Head(iter)))
    /\ iter' = Tail(iter)
    /\ UNCHANGED inode_of
    /\ ListerOnly

\* lsns is called: the map is empty; read_dir yields the processes in
\* some order of its own
InitLister ==
    /\ InitSession
    /\ validated = None
    /\ NoExecutor
    /\ iter \in Permutations(1..MaxProcs)
    /\ inode_of \in [1..MaxProcs -> Inodes \cup {Skipped}]
    /\ ns_by_id = << >>

NextLister == SkipsProcess \/ VisitsNamespace

SpecLister == InitLister /\ [][NextLister]_vars

(***************************************************************************)
(* Properties.                                                             *)
(***************************************************************************)
CeilDiv(a, b) == (a + b - 1) \div b

RECURSIVE Concat(_)
Concat(cs) ==
    IF cs = << >> THEN << >> ELSE cs[1].content[1] \o Concat(Tail(cs))

\* between the first chunk of a request and its final one
MidStream == chunks # << >> /\ result.output # << >>
\* the final chunk of a request has just left
StreamDone == chunks # << >> /\ result.output = << >>

IsChunk(resp) ==
    /\ resp.command_result # None
    /\ resp.command_result[1].content # None
    /\ resp.errmsg = None

IsHeartbeat(resp) ==
    /\ resp.agent_id = Some(AgentId)
    /\ resp.request_id = None
    /\ resp.errmsg = None
    /\ resp.command_result = None
    /\ resp.linux_namespaces = << >>
    /\ resp.commands = << >>

\* C1: a command that succeeded with L > 0 bytes of stdout is sent, with
\* the responder's batch_len B, as ceil(L / B) chunks: all but the last
\* carry B bytes, the last carries 1..B bytes, and every chunk carries
\* total_len = L and pkt_count = ceil(L / B), the number of chunks sent.
C1_ChunkSizesAndCount ==
    chunks # << >> =>
        LET L == Len(stream.stdout)
            B == batch_len
            n == CeilDiv(L, B)
        IN  /\ L > 0
            /\ stream.batch_len = B
            /\ Len(chunks) <= n
            /\ (result.output = << >> <=> Len(chunks) = n)
            /\ \A i \in 1..Len(chunks) :
                 /\ chunks[i].total_len = Some(L)
                 /\ chunks[i].pkt_count = Some(n)
                 /\ i < n => Len(chunks[i].content[1]) = B
                 /\ i = n => /\ Len(chunks[i].content[1]) = L - (n - 1) * B
                             /\ Len(chunks[i].content[1]) \in 1..B

C1_Witness ==
    /\ StreamDone
    /\ Len(stream.stdout) = 2500
    /\ batch_len = 1024
    /\ Len(chunks) = 3
    /\ Len(chunks[1].content[1]) = 1024
    /\ Len(chunks[2].content[1]) = 1024
    /\ Len(chunks[3].content[1]) = 452
    /\ \A i \in 1..3 : chunks[i].pkt_count = Some(3) /\ chunks[i].total_len = Some(2500)

\* C2: the contents of the chunks of a request, concatenated in the order
\* they were sent, are the command's stdout: while the stream is on they
\* are the part of it already sent, and what is buffered is the rest.
C2_ConcatIsStdout ==
    /\ chunks # << >> => Concat(chunks) \o result.output = stream.stdout
    /\ StreamDone => Concat(chunks) = stream.stdout

C2_Witness ==
    /\ StreamDone
    /\ Len(chunks) >= 2
    /\ Concat(chunks) = stream.stdout
    /\ chunks[1].content[1] # chunks[2].content[1]

\* C3: md5 is present on the final chunk of a request (the one that
\* empties the buffer) and on no other; it is the md5 of this request's
\* stdout alone, and the running digest has been fed exactly the bytes
\* of this request's chunks.
C3_Md5OnFinalChunkOnly ==
    /\ \A i \in 1..Len(chunks) :
         chunks[i].md5 # None <=> (i = Len(chunks) /\ result.output = << >>)
    /\ StreamDone =>
         /\ chunks[Len(chunks)].md5 = Some(Md5Of(stream.stdout))
         /\ result.digest = Md5New
    /\ MidStream => result.digest = Md5Update(Md5New, Concat(chunks))

\* the second request of the session has been streamed in several chunks
C3_Witness ==
    /\ StreamDone
    /\ stream.req = 2
    /\ reqs[1].answers = 1
    /\ Len(chunks) >= 2
    /\ chunks[1].md5 = None
    /\ chunks[Len(chunks)].md5 = Some(Md5Of(stream.stdout))

\* C4: while output is buffered, a step of the responder takes no request
\* from the channel, resolves no pending future, and emits nothing but
\* the next chunk of the request being streamed.
C4_ChunksContiguous ==
    [][result.output # << >> =>
          /\ Len(reqs') = Len(reqs)
          /\ (chan # << >> => chan' = chan)
          /\ (pending_command' = None <=> pending_command = None)
          /\ (pending_lsns' = None <=> pending_lsns = None)
          /\ last' # None =>
               /\ IsChunk(last'[1].resp)
               /\ last'[1].req = stream.req
               /\ chunks' = Append(chunks, last'[1].resp.command_result[1])
               /\ terminated' = terminated]_vars

\* a listing is ready in mid-stream, and has to wait
C4_Witness ==
    /\ MidStream
    /\ LsnsReady
    /\ ~terminated

\* C5: a heartbeat is emitted only from a state with an empty output
\* buffer, no pending command or listing that is ready, and an empty
\* intake channel; so never between two chunks of one request.
C5_HeartbeatOnlyWhenIdle ==
    [][(last' # None /\ IsHeartbeat(last'[1].resp) /\ last'[1].req = 0) =>
          /\ result.output = << >>
          /\ ~MidStream
          /\ ~CmdReady
          /\ ~LsnsReady
          /\ chan = << >>]_vars

\* a heartbeat has been emitted while a command is pending
C5_Witness ==
    /\ last # None
    /\ IsHeartbeat(last[1].resp)
    /\ pending_command # None
    /\ Len(reqs) = 2

\* every future registered has completed and has been resolved
Quiescent ==
    /\ pending_command = None
    /\ pending_lsns = None
    /\ result.output = << >>
    /\ chan = << >>

\* C6: every request taken from the intake channel gets exactly one
\* terminal response: never two, and one once the futures have completed
\* and the responder has nothing left to do.
C6_ExactlyOneTerminalResponse ==
    /\ \A k \in 1..Len(reqs) : reqs[k].answers <= 1
    /\ Quiescent => \A k \in 1..Len(reqs) : reqs[k].answers = 1

\* the witness of the violation: the first of two listings was dropped
C6_Dropped ==
    /\ Quiescent
    /\ Len(reqs) = 2
    /\ reqs[1].answers = 0
    /\ reqs[2].answers = 1

\* this step takes a RunCommand with a command_id of the catalog from the
\* channel
TakesRun ==
    /\ chan # << >>
    /\ ExecTypeOf(Head(chan)) = RunCommand
    /\ Head(chan).command_id # None
    /\ get_cmd(Head(chan).command_id[1]) # None
    /\ Len(reqs') = Len(reqs) + 1

HasBadByte(p) ==
    /\ p.value # None
    /\ \E j \in DOMAIN p.value[1] : ~ValidByte(p.value[1][j])

IsError(resp) == resp.errmsg # None

\* nothing was started for the request: the pending command is the one
\* there was, and the host was not touched
NothingStarted ==
    /\ pending_command' = pending_command
    /\ ~fx'.registered
    /\ ~fx'.spawned
    /\ ~fx'.entered
    /\ ~fx'.opened

\* C7 as stated: a RunCommand with a valid command_id and a parameter,
\* anywhere in its list, whose value has a byte outside [A-Za-z0-9_-] is
\* answered by an error response; no future is registered, nothing spawned.
C7_AnyPosition ==
    [][(TakesRun /\ \E i \in DOMAIN Head(chan).params :
                        HasBadByte(Head(chan).params[i])) =>
          /\ last' # None
          /\ IsError(last'[1].resp)
          /\ NothingStarted]_vars

\* C7, amended: the same for a bad value among the first max_param_nums
\* (2) parameters of the list; parameters past those are cut off before
\* validation and are never looked at.
C7_WithinFirstParams ==
    [][(TakesRun /\ \E i \in DOMAIN Head(chan).params :
                        i <= max_param_nums /\ HasBadByte(Head(chan).params[i])) =>
          /\ last' # None
          /\ last'[1].req = Len(reqs')
          /\ last'[1].resp.errmsg = Some("rejected run command with invalid params")
          /\ last'[1].resp.request_id = Head(chan).request_id
          /\ NothingStarted]_vars

\* a local command without placeholders was rejected for a bad parameter
C7_Witness ==
    /\ last # None
    /\ last[1].resp.errmsg = Some("rejected run command with invalid params")
    /\ last[1].resp.request_id = Some(12)
    /\ fx = NoFx
    /\ pending_command # None
    /\ reqs[2].answers = 1

\* the accepted bytes, listed: A-Z, a-z, 0-9, '-' and '_'
AllowedBytes == (65..90) \cup (97..122) \cup (48..57) \cup {45, 95}

\* C8 as stated: the validator accepts a list exactly when every entry
\* has a non-empty key, a non-empty value, and only accepted bytes in it.
C8_NonEmpty ==
    (validated # None /\ validated[1].verdict # None) =>
        LET ps == validated[1].params
        IN  validated[1].verdict[1] <=>
                \A i \in DOMAIN ps :
                    /\ ps[i].key # None /\ ps[i].key # Some("")
                    /\ ps[i].value # None /\ ps[i].value # Some(<< >>)
                    /\ \A j \in DOMAIN ps[i].value[1] : ps[i].value[1][j] \in AllowedBytes

\* the exit code the failing step knows: that of the pending command, when
\* the step resolves a command that exited with one
KnownCode ==
    IF /\ pending_command # None
       /\ pending_command' = None
       /\ pending_command[1].future.res.tag = "ok"
    THEN pending_command[1].future.res.code
    ELSE None

\* the step resolves the pending listing
ResolvesListing == pending_lsns # None /\ pending_lsns' = None

\* what every error response has: it answers its request once, with the
\* request's id, and no chunk of output goes with it
ErrorAnswersOnce ==
    LET r == last'[1] IN
    /\ r.req \in 1..Len(reqs')
    /\ r.resp.request_id = reqs'[r.req].request_id
    /\ reqs'[r.req].answers = 1
    /\ r.resp.linux_namespaces = << >>
    /\ r.resp.commands = << >>
    /\ stream'.req # r.req
    /\ owner'.result # r.req
    /\ result' = result

\* C9 as stated: every per-request error is answered by one response that
\* echoes the request_id and carries an errmsg and a command_result that
\* is empty but for errno, set exactly when an exit code is known.
C9_AlwaysCommandResult ==
    [][(last' # None /\ IsError(last'[1].resp)) =>
          /\ ErrorAnswersOnce
          /\ last'[1].resp.command_result =
                 Some([DefaultCommandResultPb EXCEPT !.errno = KnownCode])]_vars

\* C9, amended: the same for the errors of RunCommand; the response to a
\* failed ListNamespace echoes the request_id and carries the errmsg, and
\* carries no command_result at all.
C9_ErrorResponse ==
    [][(last' # None /\ IsError(last'[1].resp)) =>
          /\ ErrorAnswersOnce
          /\ last'[1].resp.command_result =
                 IF ResolvesListing
                 THEN None
                 ELSE Some([DefaultCommandResultPb EXCEPT !.errno = KnownCode])]_vars

\* a command has exited with code 3 and the error response says so
C9_Witness ==
    /\ last # None
    /\ last[1].resp.errmsg = Some("command failed with code")
    /\ last[1].resp.command_result[1].errno = Some(3)
    /\ last[1].resp.request_id = reqs[last[1].req].request_id
    /\ reqs[last[1].req].answers = 1

\* C10: when the pending command has succeeded with empty stdout, the step
\* that resolves it emits one response with the request's id and an empty
\* command_result, clears the pending command and leaves the buffer empty.
C10_EmptyStdout ==
    [][(/\ result.output = << >>
        /\ pending_command # None
        /\ pending_command[1].future.state = "ready"
        /\ pending_command[1].future.res = OkOutput(Some(0), << >>)
        /\ pending_command' # pending_command) =>
          /\ pending_command' = None
          /\ last' = Some([resp |-> Response(reqs[owner.cmd].request_id, None,
                                             Some(DefaultCommandResultPb),
                                             << >>, << >>),
                           req |-> owner.cmd])
          /\ reqs'[owner.cmd].answers = 1
          /\ result'.output = << >>
          /\ chunks' = << >>]_vars

\* the empty success response of the second request has been emitted
C10_Witness ==
    /\ last # None
    /\ last[1].req = 2
    /\ last[1].resp.request_id = Some(12)
    /\ last[1].resp.errmsg = None
    /\ last[1].resp.command_result = Some(DefaultCommandResultPb)
    /\ pending_command = None
    /\ result.output = << >>

\* this step takes a RunCommand from the channel
TakesRunCommand ==
    /\ chan # << >>
    /\ ExecTypeOf(Head(chan)) = RunCommand
    /\ Len(reqs') = Len(reqs) + 1

\* C11: batch_len is at least MIN_BATCH_LEN in every state, the initial
\* one included; a RunCommand that carries batch_len b sets it to
\* max(b, 1024) and one that carries none leaves it alone; every chunk
\* but the final one of a stream has at least 1024 bytes.
C11_BatchLenClamped ==
    /\ [](batch_len >= MIN_BATCH_LEN)
    /\ [](\A i \in 1..Len(chunks) :
              chunks[i].md5 = None => Len(chunks[i].content[1]) >= 1024)
    /\ [][TakesRunCommand =>
             batch_len' = IF Head(chan).batch_len = None
                          THEN batch_len
                          ELSE IF Head(chan).batch_len[1] > 1024
                               THEN Head(chan).batch_len[1]
                               ELSE 1024]_vars

\* a request asked for batch_len 0, then a request for 1200, and the
\* output is cut into chunks of 1200
C11_Witness ==
    /\ batch_len = 1200
    /\ Len(reqs) = 2
    /\ Len(chunks) >= 1
    /\ chunks[1].md5 = None
    /\ Len(chunks[1].content[1]) = 1200

\* C12: a step that calls set_netns also calls reset_netns, after the
\* spawn and before it returns, whether set_netns and the spawn succeed
\* or fail; no step returns having entered without having left.
C12_EnterThenLeave ==
    /\ fx.entered => (fx.left /\ fx.spawned /\ fx.opened /\ fx.registered)
    /\ fx.entered => last = None
    /\ fx.spawned_in_foreign => fx.entered

\* set_netns was called and failed; the command was spawned and
\* reset_netns called all the same
C12_Witness ==
    /\ fx.entered
    /\ fx.left
    /\ ~fx.spawned_in_foreign
    /\ pending_command # None
    /\ pending_command[1].future.state = "running"

C15_NothingAfterTeardown ==
    [][~sender_alive => (last' = None /\ nsent' = nsent)]_vars

\* after the teardown the responder went on and sent the final chunk of
\* the output it had buffered
C15_ChunkAfterTeardown ==
    /\ ~sender_alive
    /\ last # None
    /\ IsChunk(last[1].resp)
    /\ StreamDone

\* C19: the intake channel holds at most one request; a request is put in
\* only when the channel is empty and taken out only by the responder, at
\* the head; every request forwarded is in the channel or has been taken
\* by the responder, in the order of forwarding.
C19_ChannelOfOne ==
    /\ [](Len(chan) <= 1)
    /\ [](nsent = Len(reqs) + Len(chan))
    /\ [][chan' # chan =>
             \/ /\ chan = << >>
                /\ Len(chan') = 1
                /\ nsent' = nsent + 1
                /\ reqs' = reqs
             \/ /\ chan # << >>
                /\ chan' = Tail(chan)
                /\ nsent' = nsent
                /\ Len(reqs') = Len(reqs) + 1
                /\ reqs'[Len(reqs')].request_id = Head(chan).request_id
                /\ \A i \in 1..Len(reqs) : reqs'[i].request_id = reqs[i].request_id]_vars

\* the second request waits in the channel while the first is served
C19_Witness ==
    /\ Len(chan) = 1
    /\ chan[1].request_id = Some(12)
    /\ Len(reqs) = 1
    /\ reqs[1].request_id = Some(11)
    /\ pending_command # None
    /\ nsent = 2

\* the calls that found the flag clear and set it, and those that found
\* it set and cleared it
RECURSIVE Started(_)
Started(n) == IF n = 0 THEN 0 ELSE callers[n].started + Started(n - 1)
RECURSIVE Stopped(_)
Stopped(n) == IF n = 0 THEN 0 ELSE callers[n].stopped + Stopped(n - 1)

\* caller c makes a step out of "idle": the swap of a start or of a stop
Swaps(c) == callers[c].pc = "idle" /\ callers'[c] # callers[c]

\* C18: a start that finds the executor running changes nothing and spawns
\* no task; a stop that finds it stopped changes nothing; every change of
\* the flag from clear to set is won by one start, which spawns one task,
\* and every change from set to clear by one stop.
C18_StartStopIdempotent ==
    /\ [](Started(Len(callers)) - Stopped(Len(callers)) = IF running THEN 1 ELSE 0)
    /\ [](Started(Len(callers)) =
              Len(tasks) + Cardinality({c \in DOMAIN callers : callers[c].pc = "spawn"}))
    /\ [][\A c \in DOMAIN callers :
              /\ (Swaps(c) /\ running /\ running') =>
                    /\ tasks' = tasks
                    /\ callers'[c] = [callers[c] EXCEPT !.calls = @ + 1]
              /\ (Swaps(c) /\ ~running /\ ~running') =>
                    /\ tasks' = tasks
                    /\ callers'[c] = [callers[c] EXCEPT !.calls = @ + 1]
              /\ (Swaps(c) /\ ~running /\ running') =>
                    /\ callers'[c].pc = "spawn"
                    /\ callers'[c].started = callers[c].started + 1
              /\ (Swaps(c) /\ running /\ ~running') =>
                    /\ callers'[c].stopped = callers[c].stopped + 1
              /\ callers[c].pc = "spawn" =>
                    \/ Len(tasks') = Len(tasks) + 1 /\ callers'[c].pc = "idle"
                    \/ callers'[c] = callers[c]]_vars

\* two starts raced for a stopped executor: one of them spawned the task,
\* the other returned without doing anything
C18_Witness ==
    /\ running
    /\ Len(tasks) = 1
    /\ callers[1] = [pc |-> "idle", calls |-> 1, started |-> 1, stopped |-> 0]
    /\ callers[2] = [pc |-> "idle", calls |-> 1, started |-> 0, stopped |-> 0]

\* C14: once the session version has moved past the one the supervisor
\* recorded while the supervisor awaits a message, the supervisor leaves the
\* await, whether or not the server sends anything more.
C14_VersionChangeEndsSession ==
    (sup.pc = "await" /\ session.version # sup.session_version) ~> (sup.pc # "await")

\* the step in which get_client has returned None
FindsNoClient == sup.pc = "client" /\ sup'.pc = "sleep"

\* C16 as stated: finding no client raises ControllerSocketError.
C16_RaisesWithoutClient == [][FindsNoClient => exc' = exc + 1]_vars

\* C16: finding no client, the supervisor marks the session's request as
\* failed and raises no exception; it then sleeps and goes back to the head
\* of the outer loop, and no call is made and no stream is open in between.
C16_MarksRequestFailed ==
    /\ [][FindsNoClient =>
            /\ session'.request_failed
            /\ exc' = exc
            /\ inbound' = inbound
            /\ terminated' = terminated /\ sender_alive' = sender_alive]_vars
    /\ [](sup.pc = "sleep" => ~inbound.open /\ ~sender_alive)
    /\ [][sup.pc = "sleep" /\ sup' # sup =>
            sup'.pc = "head" /\ inbound' = inbound /\ exc' = exc]_vars

C16_Witness ==
    /\ sup.pc = "head"
    /\ sup.iterations = 1
    /\ session.request_failed
    /\ exc = 0

\* the steps that end an iteration of the outer loop
OpenFailure == sup.pc = "open" /\ sup'.pc # "open" /\ ~inbound'.open
ReadError ==
    /\ sup.pc = "await" /\ sup'.pc # "await"
    /\ inbound.next # << >> /\ Head(inbound.next).tag = "err"
CleanEnd ==
    /\ sup.pc = "await" /\ sup'.pc # "await"
    /\ inbound.next # << >> /\ Head(inbound.next).tag = "end"
ChannelGone == sup.pc = "send" /\ sup'.pc # "send" /\ terminated

\* C17: a failure to open the stream, an error while reading, a clean end
\* of the stream and a closed channel each end only the iteration: the
\* first raises the exception and leads to the sleep, the second raises it
\* and leads to the head of the outer loop, the other two lead there
\* without raising anything; from the sleep the supervisor goes to the
\* head, from the head with the flag set it starts a new iteration, and
\* run returns only from the head with the flag clear.
C17_ErrorsOnlyEndIteration ==
    /\ [][OpenFailure => sup'.pc = "sleep" /\ exc' = exc + 1]_vars
    /\ [][ReadError => sup'.pc = "head" /\ exc' = exc + 1]_vars
    /\ [][CleanEnd => sup'.pc = "head" /\ exc' = exc]_vars
    /\ [][ChannelGone => sup'.pc = "head" /\ exc' = exc]_vars
    /\ [][sup.pc = "sleep" /\ sup' # sup => sup'.pc = "head"]_vars
    /\ [][sup.pc = "head" /\ running /\ sup' # sup => sup'.pc = "client"]_vars
    /\ [][sup.pc # "done" /\ sup'.pc = "done" => sup.pc = "head" /\ ~running]_vars

C17_Witness ==
    /\ sup.pc = "client"
    /\ sup.iterations = 2
    /\ exc = 1
    /\ running

\* an exec_type the enumeration knows
KnownExecType(msg) ==
    msg.exec_type # None /\ from_i32(msg.exec_type[1]) # None

\* the supervisor has received a message without a known exec_type
ReceivesUnknown ==
    /\ sup.pc = "await" /\ sup'.pc # "await"
    /\ inbound.next # << >>
    /\ Head(inbound.next).tag = "message"
    /\ ~KnownExecType(Head(inbound.next).message[1])

TakesListCommand ==
    /\ chan # << >>
    /\ ExecTypeOf(Head(chan)) = ListCommand
    /\ Len(reqs') = Len(reqs) + 1

\* C21: the step that takes a ListCommand emits its one response, with the
\* request's id and the 7 entries of the catalog, ids 0 to 6 in order,
\* entry 4 with the parameter names ns and pod, Text and Kubernetes; it
\* leaves the pending command, the pending listing, batch_len and the
\* buffer as they were.  Every response emitted by the step that takes a
\* request answers that request, the latest taken, and no request is ever
\* answered twice.
C21_ListCommandAtIntake ==
    /\ [][TakesListCommand =>
            /\ last' # None
            /\ last'[1].req = Len(reqs')
            /\ reqs'[Len(reqs')].answers = 1
            /\ last'[1].resp.request_id = Head(chan).request_id
            /\ last'[1].resp.errmsg = None
            /\ last'[1].resp.command_result = None
            /\ last'[1].resp.linux_namespaces = << >>
            /\ LET commands == last'[1].resp.commands
               IN  /\ Len(commands) = 7
                   /\ \A i \in 1..7 : commands[i].id = Some(i - 1)
                   /\ commands[5].param_names = <<"ns", "pod">>
                   /\ commands[5].output_format = Some("Text")
                   /\ commands[5].cmd_type = Some("Kubernetes")
            /\ UNCHANGED <<pending_command, pending_lsns, batch_len, result>>]_vars
    /\ [][(Len(reqs') = Len(reqs) + 1 /\ last' # None) =>
            /\ last'[1].req = Len(reqs')
            /\ last'[1].resp.request_id = Head(chan).request_id]_vars
    /\ [](\A k \in 1..Len(reqs) : reqs[k].answers <= 1)

\* the catalog has been sent in answer to the second request while the
\* command of the first is still running
C21_Witness ==
    /\ last # None
    /\ last[1].req = 2
    /\ Len(last[1].resp.commands) = 7
    /\ last[1].resp.request_id = Some(12)
    /\ pending_command # None
    /\ pending_command[1].future.state = "running"
    /\ reqs[1].answers = 0

\* the processes lsns has visited so far whose namespace file has inode i
Sharing(i) ==
    {p \in 1..MaxProcs : inode_of[p] = i /\ \A k \in DOMAIN iter : iter[k] # p}

\* the smallest pid of a non-empty set of processes
MinPid(S) == CHOOSE p \in S : \A q \in S : p <= q

\* C22: once two processes of one inode have been visited, in either
\* order, the map holds one entry for the inode, with nprocs 2 and the pid,
\* user and command line of the process with the smaller pid.
C22_TwoProcessesOneEntry ==
    \A i \in Inodes :
        Cardinality(Sharing(i)) = 2 =>
            /\ i \in DOMAIN ns_by_id
            /\ ns_by_id[i] = [Namespace(i, MinPid(Sharing(i))) EXCEPT !.nprocs = 2]

\* lsns has returned: processes 2 and 3 share an inode, process 1 does not,
\* and the entry of the inode is that of process 2
C22_Witness ==
    /\ iter = << >>
    /\ Sharing(4026) = {2, 3}
    /\ ns_by_id[4026].pid = 2
    /\ ns_by_id[4026].nprocs = 2
    /\ ns_by_id[4026].user = [uid |-> 1002]

\* C23: the entry of an inode counts the processes visited that share it,
\* and has the smallest of their pids.
C23_CountsEveryProcess ==
    \A i \in Inodes :
        Sharing(i) # {} =>
            /\ i \in DOMAIN ns_by_id
            /\ ns_by_id[i].nprocs = Cardinality(Sharing(i))
            /\ ns_by_id[i].pid = MinPid(Sharing(i))

\* this step takes a RunCommand for a Kubernetes command whose parameters,
\* cut to max_param_nums, are valid and lack ns or pod
TakesKubeWithoutParam ==
    /\ TakesRun
    /\ get_cmd(Head(chan).command_id[1])[1].command_type.ty = "Kubernetes"
    /\ is_valid(TruncateParams(Head(chan).params))
    /\ \/ LastValueOf(TruncateParams(Head(chan).params), "ns") = None
       \/ LastValueOf(TruncateParams(Head(chan).params), "pod") = None

\* the missing parameter the error names: ns if ns is missing, else pod
MissingParam ==
    IF LastValueOf(TruncateParams(Head(chan).params), "ns") = None THEN "ns" ELSE "pod"

\* the one error response of the step, but for its message: the request's
\* id, no future registered, nothing spawned, no namespace entered
RejectedAtOnce ==
    /\ last' # None
    /\ last'[1].req = Len(reqs')
    /\ reqs'[Len(reqs')].answers = 1
    /\ last'[1].resp.request_id = Head(chan).request_id
    /\ last'[1].resp.errmsg # None
    /\ pending_command' = pending_command
    /\ ~fx'.registered
    /\ ~fx'.spawned
    /\ ~fx'.entered

EchoesRequestId ==
    /\ last'[1].req \in 1..Len(reqs')
    /\ last'[1].resp.request_id = reqs'[last'[1].req].request_id
    /\ IsChunk(last'[1].resp) /\ result.output # << >> =>
          /\ last'[1].req = stream.req
          /\ last'[1].resp.request_id = result.request_id

\* C25 as stated: every response that answers a request carries the
\* request's id, a chunk that of the request being streamed; the id stored
\* with the result stays while the buffer is non-empty; a response without
\* a request_id is a heartbeat.
C25_OnlyHeartbeatsWithoutId ==
    /\ [][last' # None /\ last'[1].req # 0 => EchoesRequestId]_vars
    /\ [][result.output # << >> => result'.request_id = result.request_id]_vars
    /\ [][last' # None /\ last'[1].resp.request_id = None =>
            last'[1].req = 0 /\ IsHeartbeat(last'[1].resp)]_vars

\* C25, amended: the same, except that a response without a request_id is
\* a heartbeat or answers a request that came without a request_id.
C25_EchoesRequestId ==
    /\ [][last' # None /\ last'[1].req # 0 => EchoesRequestId]_vars
    /\ [][result.output # << >> => result'.request_id = result.request_id]_vars
    /\ [][last' # None /\ last'[1].req = 0 => IsHeartbeat(last'[1].resp)]_vars
    /\ [][last' # None /\ last'[1].resp.request_id = None =>
            \/ last'[1].req = 0
            \/ reqs'[last'[1].req].request_id = None]_vars

\* an error response to the first request and then a chunk of the second
\* request's output, each under its own id
C25_Witness ==
    /\ last # None
    /\ IsChunk(last[1].resp)
    /\ last[1].req = 2
    /\ last[1].resp.request_id = Some(12)
    /\ reqs[1].request_id = Some(11)
    /\ reqs[1].answers = 1
    /\ MidStream

\* C26: once the running flag has been cleared while the supervisor awaits
\* a message, the supervisor leaves the await (to exit both loops), whether
\* or not the server sends anything more.
C26_StopEndsAwait ==
    (sup.pc = "await" /\ ~running) ~> (sup.pc # "await")

\* C27: the step that takes a RunCommand and rejects it leaves batch_len,
\* the pending command, the pending listing and the buffer as they were.
C27_RejectionLeavesState ==
    [][(TakesRunCommand /\ last' # None /\ IsError(last'[1].resp)) =>
          UNCHANGED <<batch_len, pending_command, pending_lsns, result>>]_vars

\* C28: a step changes a non-empty buffer only by draining bytes from its
\* front, leaving the id, errno and total length stored with it; the
\* buffer is filled only from empty, by a step that resolves the pending
\* command, with the stdout of that command, and that step takes the
\* pending command, so that no completion fills the buffer twice.
C28_FilledOnlyWhenEmpty ==
    /\ [][(result.output # << >> /\ result' # result) =>
            /\ Len(result'.output) < Len(result.output)
            /\ result'.output =
                   SubSeq(result.output, Len(result.output) - Len(result'.output) + 1,
                          Len(result.output))
            /\ result'.request_id = result.request_id
            /\ result'.errno = result.errno
            /\ result'.total_len = result.total_len]_vars
    /\ [][(result.output = << >> /\ result'.output # << >>) =>
            /\ CmdReady
            /\ result'.output = pending_command[1].future.res.stdout
            /\ result'.request_id = pending_command[1].request_id
            /\ result'.total_len = Len(result'.output)
            /\ pending_command' = None]_vars
    /\ [](result.output # << >> => pending_command = None)

\* the buffer has just been filled with the output of the second request,
\* the output of the first having been streamed before
C28_Witness ==
    /\ result.output # << >>
    /\ result.output = stream.stdout
    /\ chunks = << >>
    /\ stream.req = 2
    /\ reqs[1].answers = 1
    /\ pending_command = None

\* C29: while output is buffered or the pending command is complete, a
\* listing that is complete stays pending and no response answers it; a
\* request is taken from the channel only when nothing is buffered and
\* neither the pending command nor the pending listing is complete, and a
\* response emitted by that step answers the request taken; a heartbeat is
\* emitted only when, on top of that, the channel is empty.
C29_GatesInPriorityOrder ==
    /\ [][(LsnsReady /\ (DrainGate \/ CmdReady)) =>
            /\ pending_lsns' = pending_lsns
            /\ last' # None => last'[1].req # owner.lsns]_vars
    /\ [][(DrainGate /\ last' # None) => IsChunk(last'[1].resp)]_vars
    /\ [][Len(reqs') = Len(reqs) + 1 =>
            /\ ~DrainGate /\ ~CmdReady /\ ~LsnsReady
            /\ last' # None => last'[1].req = Len(reqs')]_vars
    /\ [][(last' # None /\ last'[1].req = 0) =>
            ~DrainGate /\ ~CmdReady /\ ~LsnsReady /\ chan = << >>]_vars

\* the listing was asked for first and is complete, and the output of the
\* command asked for second has been streamed to its final chunk before it
C29_Witness ==
    /\ LsnsReady
    /\ owner.lsns = 1
    /\ StreamDone
    /\ stream.req = 2
    /\ Len(chunks) >= 2
    /\ reqs[2].answers = 1
    /\ reqs[1].answers = 0

\* C30: the stream ends only in a step that finds the sender gone and the
\* channel empty, with nothing buffered and no pending future complete,
\* and that step emits nothing; with the sender gone, buffered output
\* still leaves chunk by chunk, the final one with its md5, and the stream
\* does not end before; with the sender gone, the channel empty, nothing
\* buffered and no future complete, no response is emitted, so that a
\* request still pending then is never answered; after the end nothing is
\* emitted at all.
C30_EndsOnlyOnClosedChannel ==
    /\ [][(~terminated /\ terminated') =>
            /\ ~sender_alive /\ chan = << >>
            /\ ~DrainGate /\ ~CmdReady /\ ~LsnsReady
            /\ last' = None
            /\ UNCHANGED <<reqs, pending_command, pending_lsns, result>>]_vars
    /\ [][(~sender_alive /\ DrainGate) =>
            /\ ~terminated'
            /\ last' # None =>
                  /\ IsChunk(last'[1].resp)
                  /\ chunks' = Append(chunks, last'[1].resp.command_result[1])
                  /\ result'.output = << >> =>
                        last'[1].resp.command_result[1].md5 = Some(Md5Of(stream.stdout))]_vars
    /\ [][(~sender_alive /\ chan = << >> /\ ~DrainGate /\ ~CmdReady /\ ~LsnsReady) =>
            last' = None /\ reqs' = reqs]_vars
    /\ [][terminated => terminated' /\ last' = None /\ reqs' = reqs]_vars
    /\ [](terminated => result.output = << >> /\ chan = << >> /\ ~sender_alive)

\* the stream has ended with the command of the second request still
\* running and unanswered, the first request having been answered
C30_Witness ==
    /\ terminated
    /\ Len(reqs) = 2
    /\ reqs[1].answers = 1
    /\ reqs[2].answers = 0
    /\ pending_command # None
    /\ pending_command[1].future.state = "running"

\* this step takes a RunCommand and registers the future of its command
AcceptsRunCommand ==
    /\ TakesRunCommand
    /\ fx'.registered

\* C31: the future registered for an accepted RunCommand is that of the
\* namespace enumerator for entry 0 (lsns), that of a Kubernetes executor
\* for entries 4, 5 and 6, and that of a subprocess for entries 1, 2 and
\* 3; only in the last case is a process spawned or the namespace entered
\* or left, whatever linux_ns_pid the request carries.
C31_DispatchByCatalogEntry ==
    [][AcceptsRunCommand =>
          LET id == Head(chan).command_id[1] IN
          /\ pending_command' # None
          /\ pending_command'[1].id = id
          /\ pending_command'[1].future.kind =
                 (CASE id = 0 -> "lsns"
                    [] id \in {4, 5, 6} -> "kube"
                    [] id \in {1, 2, 3} -> "spawn")
          /\ fx'.spawned <=> id \in {1, 2, 3}
          /\ id \notin {1, 2, 3} =>
                 /\ ~fx'.entered /\ ~fx'.left
                 /\ ~fx'.spawned_in_foreign /\ ~fx'.in_foreign]_vars

\* lsns has been accepted for the namespace of another process: its
\* namespace file was opened, no namespace entered and nothing spawned
C31_Witness ==
    /\ fx.registered
    /\ fx.opened
    /\ ~fx.entered
    /\ ~fx.spawned
    /\ pending_command # None
    /\ pending_command[1].id = 0
    /\ pending_command[1].future.kind = "lsns"

\* the supervisor tasks that have been spawned and have not ended
Alive == {t \in DOMAIN tasks : tasks[t].pc # "done"}

\* C32: at most one supervisor task is alive at any time.
C32_OneSupervisorAlive == Cardinality(Alive) <= 1

====
